---- MODULE Spec2Model ----
(***************************************************************************)
(* The finite-element analysis call _FEM(Edges, nely, nelx, image) of      *)
(* src/_FEM.py, as a state machine that walks through the phases of one    *)
(* call: classification of the grid, construction of the DOF map and the   *)
(* assembly triplets, the descending deletion loop, loads, fixed and free  *)
(* DOFs, assembly of K, the solve, the scatter and the stress recovery.    *)
(*                                                                         *)
(* Arithmetic.  Edge coordinates are integers in design-space units.  The  *)
(* point-in-polygon test compares points after the scaling 0.05*nelx and   *)
(* 0.1*nely; the model multiplies every x by XDen = 20 and every y by      *)
(* YDen = 10, which keeps all coordinates integral and multiplies every    *)
(* 3x3 determinant by the positive factor 200, so that the sign _ccw reads *)
(* is the sign of the exact determinant.  Stiffness values are held in     *)
(* units of E0 / (NuDen * 0.91 * 24): KE = (NuDen*A + NuNum*B) in that     *)
(* unit, an integer matrix.  Displacements and stresses are the results of *)
(* a floating point solve and are kept symbolic (see Solve, Scatter).      *)
(***************************************************************************)
EXTENDS Integers, Sequences, FiniteSets

VARIABLES nelx, nely, Edges, pc, x, e, di, edofMat, iK, jK, sK, F,
          fixeddofs, freedofs, K, U, result

vars == <<nelx, nely, Edges, pc, x, e, di, edofMat, iK, jK, sK, F,
          fixeddofs, freedofs, K, U, result>>

(***************************************************************************)
(* Bounds of the model.                                                    *)
(***************************************************************************)
MaxNelx == 3
MaxNely == 2
MaxBoxes == 2
TallNely == 40

(***************************************************************************)
(* Program constants.                                                      *)
(***************************************************************************)
bigNumberx == 1
bigNumbery == 30
XDen == 20
YDen == 10
NuNum == 3
NuDen == 10

(***************************************************************************)
(* Generic helpers: numpy's sort, unique, delete, max, min and round.      *)
(***************************************************************************)
\* np.sort of a one-dimensional array: position k holds the value v with
\* fewer than k entries below it and at least k entries not above it.
\* (SubSeq over the whole length returns the same sequence, as a tuple.)
NpSort(s) ==
    LET sorted == [k \in 1..Len(s) |->
                      CHOOSE v \in {s[i] : i \in 1..Len(s)} :
                          /\ Cardinality({i \in 1..Len(s) : s[i] < v}) < k
                          /\ Cardinality({i \in 1..Len(s) : s[i] <= v}) >= k]
    IN SubSeq(sorted, 1, Len(s))

SetToSortedSeq(S) ==
    LET sorted == [k \in 1..Cardinality(S) |->
                      CHOOSE v \in S : Cardinality({w \in S : w < v}) = k - 1]
    IN SubSeq(sorted, 1, Cardinality(S))

\* np.unique: the sorted values, each once.
NpUnique(s) == SetToSortedSeq({s[i] : i \in 1..Len(s)})

\* np.delete(arr, j, 0) with j the 0-based position: TLA+ position j + 1.
NpDelete(s, j) == SubSeq(s, 1, j) \o SubSeq(s, j + 2, Len(s))

Range(s) == {s[k] : k \in 1..Len(s)}

SetMax(S) == CHOOSE m \in S : \A o \in S : o <= m
SetMin(S) == CHOOSE m \in S : \A o \in S : m <= o

RECURSIVE SumOver(_, _)
SumOver(S, s) ==
    IF S = {} THEN 0
    ELSE LET k == CHOOSE k \in S : TRUE IN s[k] + SumOver(S \ {k}, s)

\* np.round(n / 10) for an integer n >= 0: round half to even.
RoundTenth(n) ==
    LET q == n \div 10
        r == n % 10
    IN IF r < 5 THEN q
       ELSE IF r > 5 THEN q + 1
       ELSE IF q % 2 = 0 THEN q ELSE q + 1

(***************************************************************************)
(* _ccw and _membershiptest.                                               *)
(***************************************************************************)
Det3(ax, ay, bx, by, cx, cy) ==
    ax * (by - cy) - bx * (ay - cy) + cx * (ay - by)

_ccw(ax, ay, bx, by, cx, cy) == Det3(ax, ay, bx, by, cx, cy) > 0

\* The far end of the ray, in the model's scaled units.
RayEndX == XDen * bigNumberx
RayEndY == YDen * bigNumbery

EdgeCrosses(px, py, edge, ny, nx) ==
    LET ax == RayEndX
        ay == RayEndY
        bx == XDen * px
        by == YDen * py
        cx == nx * edge[2]
        cy == ny * edge[3]
        dx == nx * edge[4]
        dy == ny * edge[5]
    IN /\ _ccw(ax, ay, bx, by, cx, cy) # _ccw(ax, ay, bx, by, dx, dy)
       /\ _ccw(cx, cy, dx, dy, ax, ay) # _ccw(cx, cy, dx, dy, bx, by)

crossNumber(px, py, edges, ny, nx) ==
    Cardinality({i \in 1..Len(edges) :
                    edges[i][1] = 1 /\ EdgeCrosses(px, py, edges[i], ny, nx)})

_membershiptest(px, py, edges, ny, nx) ==
    crossNumber(px, py, edges, ny, nx) % 2 = 1

(***************************************************************************)
(* The inputs of a call: grid sizes and edge lists.  An edge is            *)
(* <<active, x1, y1, x2, y2>>.                                             *)
(***************************************************************************)
\* The four sides of the axis-aligned rectangle [X1,X2] x [Y1,Y2], starting
\* at side rot (0..3), counter-clockwise (cw = 0) or clockwise (cw = 1).
RectEdges(X1, Y1, X2, Y2, rot, cw, active) ==
    LET ccwSides == << <<active, X1, Y1, X2, Y1>>, <<active, X2, Y1, X2, Y2>>,
                       <<active, X2, Y2, X1, Y2>>, <<active, X1, Y2, X1, Y1>> >>
        Flip(s) == <<s[1], s[4], s[5], s[2], s[3]>>
        cwSides == << Flip(ccwSides[4]), Flip(ccwSides[3]),
                      Flip(ccwSides[2]), Flip(ccwSides[1]) >>
        sides == IF cw = 0 THEN ccwSides ELSE cwSides
    IN [k \in 1..4 |-> sides[((k - 1 + rot) % 4) + 1]]

\* A rectangle in design-space integers that encloses exactly the
\* representative points with column numbers pa..pb and heights qa..qb.
BlockEdges(nx, ny, pa, pb, qa, qb, active) ==
    RectEdges((XDen * pa - 1) \div nx, (YDen * qa - 1) \div ny,
              (XDen * pb) \div nx + 1, (YDen * qb) \div ny + 1, 0, 0, active)

RECURSIVE BoxList(_, _, _)
BoxList(nx, ny, S) ==
    IF S = {} THEN << >>
    ELSE LET c == SetMin(S)
             ely == (c - 1) % ny
             elx == (c - 1) \div ny
         IN BlockEdges(nx, ny, elx + 1, elx + 1, ny - ely - 1, ny - ely - 1, 1)
            \o BoxList(nx, ny, S \ {c})

EdgeInputs(nx, ny) ==
    {<< >>}
    \cup {BlockEdges(nx, ny, b[1], b[2], b[3], b[4], b[5]) :
            b \in {c \in (1..nx) \X (1..nx) \X (0..(ny - 1)) \X (0..(ny - 1))
                          \X {0, 1} : c[1] <= c[2] /\ c[3] <= c[4]}}
    \cup {BoxList(nx, ny, S) :
            S \in {T \in SUBSET (1..(nx * ny)) :
                     Cardinality(T) >= 2 /\ Cardinality(T) <= MaxBoxes}}

\* Rectangles for the membership test alone: corners on a small lattice of
\* design-space coordinates (the domain is 20 wide and 10 high), every
\* starting side, both winding directions.
RectXs == {0, 5, 15, 20}
RectYs == {0, 3, 7, 8}

RectInputs ==
    {RectEdges(r[1], r[2], r[3], r[4], r[5], r[6], 1) :
        r \in {c \in RectXs \X RectYs \X RectXs \X RectYs \X (0..3) \X {0, 1} :
                  c[1] < c[3] /\ c[2] < c[4]}}

\* The small grids, and a grid more than bigNumbery rows high.
MemberGrids == ((1..MaxNelx) \X (1..MaxNely)) \cup {<<2, TallNely>>}

(***************************************************************************)
(* Quantities derived from the grid size.                                  *)
(***************************************************************************)
NumElements == nelx * nely
NumDofs == 2 * (nely + 1) * (nelx + 1)

\* nodenrs[i][j] of lines 94-97: column-major node numbers, 1-based.
nodenrs(i, j) == j * (nely + 1) + i + 1

(***************************************************************************)
(* Lines 65-76: the grid x and the void list e.                            *)
(***************************************************************************)
GridOf(edges) ==
    [ely \in 0..(nely - 1) |->
        [elx \in 0..(nelx - 1) |->
            IF _membershiptest(elx + 1, nely - ely - 1, edges, nely, nelx)
            THEN 0 ELSE 1]]

\* The indices appended by the double loop, in loop order (ely outer).
AppendedVoids(grid) ==
    LET loopOrder == [k \in 1..NumElements |->
                         ((k - 1) % nelx) * nely + ((k - 1) \div nelx) + 1]
        IsVoid(c) == grid[(c - 1) % nely][(c - 1) \div nely] = 0
    IN SelectSeq(loopOrder, IsVoid)

SortedVoidsUnsorted(list) == list

\* Lines 75-76: e = np.unique(np.sort(e)).
SortedVoids(list) == NpUnique(NpSort(list))

(***************************************************************************)
(* Lines 78-92: the element stiffness template, in units of                *)
(* E0 / (NuDen * 0.91 * 24).                                               *)
(***************************************************************************)
A11 == << <<12, 3, -6, -3>>, <<3, 12, 3, 0>>, <<-6, 3, 12, -3>>, <<-3, 0, -3, 12>> >>
A12 == << <<-6, -3, 0, 3>>, <<-3, -6, -3, -6>>, <<0, -3, -6, 3>>, <<3, -6, 3, -6>> >>
B11 == << <<-4, 3, -2, 9>>, <<3, -4, -9, 4>>, <<-2, -9, -4, -3>>, <<9, 4, -3, -4>> >>
B12 == << <<2, -3, 4, -9>>, <<-3, 2, 9, -2>>, <<4, 9, 2, 3>>, <<-9, -2, 3, 2>> >>

\* [[M11, M12], [M12T, M11]], rows and columns 1..8.
Blocks(M11, M12) ==
    [r \in 1..8 |-> [c \in 1..8 |->
        IF r <= 4 /\ c <= 4 THEN M11[r][c]
        ELSE IF r <= 4 THEN M12[r][c - 4]
        ELSE IF c <= 4 THEN M12[c][r - 4]
        ELSE M11[r - 4][c - 4]]]

KE == [r \in 1..8 |-> [c \in 1..8 |->
          NuDen * Blocks(A11, A12)[r][c] + NuNum * Blocks(B11, B12)[r][c]]]

(***************************************************************************)
(* Lines 93-119: edofVec, edofMat and the triplets of every element.       *)
(***************************************************************************)
\* 2 * b + 1 reshaped row by row, then sorted.
edofVec ==
    NpSort([k \in 1..NumElements |->
               2 * nodenrs((k - 1) \div nelx, (k - 1) % nelx) + 1])

EdofOffsetsSwapped ==
    <<0, 1, 2 * nely + 2, 2 * nely + 3, 2 * nely + 2, 2 * nely + 1, -2, -1>>

EdofOffsets ==
    <<0, 1, 2 * nely + 2, 2 * nely + 3, 2 * nely, 2 * nely + 1, -2, -1>>

EdofMatFull ==
    LET vec == edofVec
        off == EdofOffsets
    IN [n \in 1..NumElements |-> [c \in 1..8 |-> vec[n] + off[c]]]

\* np.kron(edofMat, ones([8, 1])) flattened: position 64n + 8r + c holds
\* edofMat[n][c].
iKFull(mat) ==
    [k \in 1..(64 * NumElements) |->
        mat[((k - 1) \div 64) + 1][((k - 1) % 8) + 1]]

\* np.kron(edofMat, ones([1, 8])) flattened: position 64n + 8r + c holds
\* edofMat[n][r].
jKFull(mat) ==
    [k \in 1..(64 * NumElements) |->
        mat[((k - 1) \div 64) + 1][(((k - 1) % 64) \div 8) + 1]]

\* KE1 = transpose(KE) flattened: position 8r + c holds KE[c][r].
KE1 == [k \in 1..64 |-> KE[((k - 1) % 8) + 1][((k - 1) \div 8) + 1]]

\* xT = transpose(x) flattened, times E0: entry n is cell (n % nely, n / nely).
xT(grid) ==
    [n \in 1..NumElements |-> grid[(n - 1) % nely][(n - 1) \div nely]]

sKFull(grid) ==
    LET xt == xT(grid)
        ke == KE1
    IN [k \in 1..(64 * NumElements) |->
          ke[((k - 1) % 64) + 1] * xt[((k - 1) \div 64) + 1]]

(***************************************************************************)
(* Lines 121-126: the deletion loop.                                       *)
(***************************************************************************)
\* The same loop stopping one position early.
RECURSIVE DeleteTripletsShort(_, _, _)
DeleteTripletsShort(s, j, last) ==
    IF j <= last THEN s
    ELSE IF j = last + 1 THEN NpDelete(s, j)
    ELSE LET mid == (j + last) \div 2
             upper == DeleteTripletsShort(s, j, mid)
         IN IF Len(upper) = 0 THEN upper
            ELSE DeleteTripletsShort(upper, mid, last)

\* for j in range(64*e[i] - 1, 64*(e[i] - 1) - 1, -1): s = np.delete(s, j, 0)
\* j and last are the first and the last 0-based position the loop visits.
\* The positions are deleted one at a time from j down to last; the upper
\* half of the range is done (and its result computed) before the lower half.
RECURSIVE DeleteTriplets(_, _, _)
DeleteTriplets(s, j, last) ==
    IF j < last THEN s
    ELSE IF j = last THEN NpDelete(s, j)
    ELSE LET mid == (j + last) \div 2
             upper == DeleteTriplets(s, j, mid + 1)
         IN IF Len(upper) = 0 THEN upper
            ELSE DeleteTriplets(upper, mid, last)

(***************************************************************************)
(* Lines 128-131: the load vector, in units of fmag.                       *)
(***************************************************************************)
LoadVector ==
    [d \in 1..NumDofs |->
        IF \E i \in 0..nelx : d = 2 + 2 * (nely + 1) * i THEN -1 ELSE 0]

(***************************************************************************)
(* Lines 139-151: the fixed DOFs, from max(e) and min(e).                  *)
(***************************************************************************)
fixedcon(voids) ==
    LET top == SetMax(Range(voids))
        i == RoundTenth(NumElements - top)
    IN UNION {{2 * (nely + 1) * (RoundTenth(top) + j + 1) - 1,
               2 * (nely + 1) * (RoundTenth(top) + j)} : j \in 1..i}

fixedcon2(voids) == {2 * j : j \in 0..SetMin(Range(voids))}

\* np.union1d: the sorted, duplicate-free union.
FixedDofs(voids) == SetToSortedSeq(fixedcon(voids) \cup fixedcon2(voids))

(***************************************************************************)
(* Lines 153-176: alldofs with the unreferenced entries zeroed and then    *)
(* deleted, and freedofs = setdiff1d(alldofs, fixeddofs).                  *)
(***************************************************************************)
alldofs(mat) ==
    LET marked == [i \in 1..NumDofs |->
                      IF \E j \in 1..Len(mat) : \E q \in 1..8 : mat[j][q] = i
                      THEN i ELSE 0]
        NotZero(v) == v # 0
    IN SelectSeq(marked, NotZero)

FreeDofsKeepingFixed(all, fixed) == SetToSortedSeq(Range(all))

FreeDofs(all, fixed) == SetToSortedSeq(Range(all) \ Range(fixed))

(***************************************************************************)
(* Lines 178-184: K from the triplets.  coo_matrix sums the values of      *)
(* repeated (row, col) pairs; the shape is (max(iK), max(jK)).             *)
(***************************************************************************)
Assembled(rowsOf, colsOf, vals) ==
    LET nrows == SetMax(Range(rowsOf))
        ncols == SetMax(Range(colsOf))
        summed == [p \in 1..nrows |->
                     LET inRow == {k \in 1..Len(rowsOf) : rowsOf[k] = p}
                     IN [q \in 1..ncols |->
                           SumOver({k \in inRow : colsOf[k] = q}, vals)]]
    IN [shape |-> <<nrows, ncols>>,
        val |-> [p \in 1..nrows |-> [q \in 1..ncols |->
                     (summed[p][q] + summed[q][p]) \div 2]]]

(***************************************************************************)
(* Lines 197-198: the scatter.  U holds 0 where it still has the zero of   *)
(* np.zeros and i where it was assigned the solved value U2[i - 1].        *)
(***************************************************************************)
Scattered(free) ==
    [d \in 1..NumDofs |->
        LET hits == {i \in 1..Len(free) : free[i] = d}
        IN IF hits = {} THEN 0 ELSE SetMax(hits)]

(***************************************************************************)
(* The state machine of one call.                                          *)
(***************************************************************************)
Running == [status |-> "running", error |-> "none", line |-> 0, area |-> 0]
Raised(err, ln) == [status |-> "raised", error |-> err, line |-> ln, area |-> 0]
Returned(a) == [status |-> "returned", error |-> "none", line |-> 218, area |-> a]

Start(nx, ny, edges) ==
    /\ nelx = nx
    /\ nely = ny
    /\ Edges = edges
    /\ pc = "classify"
    /\ x = << >>
    /\ e = << >>
    /\ di = 0
    /\ edofMat = << >>
    /\ iK = << >>
    /\ jK = << >>
    /\ sK = << >>
    /\ F = << >>
    /\ fixeddofs = << >>
    /\ freedofs = << >>
    /\ K = [shape |-> <<0, 0>>, val |-> << >>]
    /\ U = << >>
    /\ result = Running

\* Three 4x4 scenarios: no hole, a hole over the four interior elements,
\* and a hole over the two upper elements of the first column.
ScenarioInputs ==
    {<<4, 4, << >> >>,
     <<4, 4, BlockEdges(4, 4, 2, 3, 1, 2, 1)>>,
     <<4, 4, BlockEdges(4, 4, 1, 1, 2, 3, 1)>>}

Init ==
    \/ \E nx \in 1..MaxNelx, ny \in 1..MaxNely :
          \E edges \in EdgeInputs(nx, ny) : Start(nx, ny, edges)
    \/ \E sc \in ScenarioInputs : Start(sc[1], sc[2], sc[3])

\* Lines 65-76.
Classify ==
    /\ pc = "classify"
    /\ x' = GridOf(Edges)
    /\ e' = SortedVoids(AppendedVoids(GridOf(Edges)))
    /\ pc' = "dofmap"
    /\ UNCHANGED <<nelx, nely, Edges, di, edofMat, iK, jK, sK, F, fixeddofs,
                   freedofs, K, U, result>>

\* Lines 78-119.
BuildDofMap ==
    /\ pc = "dofmap"
    /\ edofMat' = EdofMatFull
    /\ iK' = iKFull(edofMat')
    /\ jK' = jKFull(edofMat')
    /\ sK' = sKFull(x)
    /\ di' = Len(e)
    /\ pc' = "delete"
    /\ UNCHANGED <<nelx, nely, Edges, x, e, F, fixeddofs, freedofs, K, U, result>>

\* Lines 121-126: one iteration of the outer loop, for e[di] (1-based di).
DeleteVoid ==
    /\ pc = "delete"
    /\ di >= 1
    /\ iK' = DeleteTriplets(iK, 64 * e[di] - 1, 64 * (e[di] - 1))
    /\ jK' = DeleteTriplets(jK, 64 * e[di] - 1, 64 * (e[di] - 1))
    /\ sK' = DeleteTriplets(sK, 64 * e[di] - 1, 64 * (e[di] - 1))
    /\ edofMat' = NpDelete(edofMat, e[di] - 1)
    /\ di' = di - 1
    /\ UNCHANGED <<nelx, nely, Edges, pc, x, e, F, fixeddofs, freedofs, K, U,
                   result>>

\* Lines 128-137, once the deletion loop is over.  The loop of lines 132-137
\* discards the result of np.delete and changes nothing.
BuildLoad ==
    /\ pc = "delete"
    /\ di = 0
    /\ F' = LoadVector
    /\ pc' = "fixed"
    /\ UNCHANGED <<nelx, nely, Edges, x, e, di, edofMat, iK, jK, sK, fixeddofs,
                   freedofs, K, U, result>>

\* Lines 139-151.  np.max of an empty e raises ValueError at line 140.
BuildFixed ==
    /\ pc = "fixed"
    /\ U' = [d \in 1..NumDofs |-> 0]
    /\ IF Len(e) = 0
       THEN /\ result' = Raised("ValueError", 140)
            /\ pc' = "raised"
            /\ UNCHANGED fixeddofs
       ELSE /\ fixeddofs' = FixedDofs(e)
            /\ pc' = "free"
            /\ UNCHANGED result
    /\ UNCHANGED <<nelx, nely, Edges, x, e, di, edofMat, iK, jK, sK, F, freedofs, K>>

\* Lines 153-176.
BuildFree ==
    /\ pc = "free"
    /\ freedofs' = FreeDofs(alldofs(edofMat), fixeddofs)
    /\ pc' = "assemble"
    /\ UNCHANGED <<nelx, nely, Edges, x, e, di, edofMat, iK, jK, sK, F, fixeddofs,
                   K, U, result>>

\* Lines 178-184.  np.max of an empty iK raises ValueError at line 182.
Assemble ==
    /\ pc = "assemble"
    /\ IF Len(iK) = 0
       THEN /\ result' = Raised("ValueError", 182)
            /\ pc' = "raised"
            /\ UNCHANGED K
       ELSE /\ K' = Assembled(iK, jK, sK)
            /\ pc' = "solve"
            /\ UNCHANGED result
    /\ UNCHANGED <<nelx, nely, Edges, x, e, di, edofMat, iK, jK, sK, F, fixeddofs,
                   freedofs, U>>

\* Lines 186-196: K2 and F2 are read out of K and F at the free DOFs, then
\* K2 is inverted.  An index beyond K raises IndexError at line 190.  Whether
\* K2 is singular is a matter of the floating point values, which the model
\* does not hold: np.linalg.inv either returns or raises LinAlgError.
Solve ==
    /\ pc = "solve"
    /\ IF \E i \in 1..Len(freedofs) :
            freedofs[i] > K.shape[1] \/ freedofs[i] > K.shape[2]
       THEN /\ result' = Raised("IndexError", 190)
            /\ pc' = "raised"
       ELSE \/ /\ pc' = "scatter"
               /\ UNCHANGED result
            \/ /\ result' = Raised("LinAlgError", 196)
               /\ pc' = "raised"
    /\ UNCHANGED <<nelx, nely, Edges, x, e, di, edofMat, iK, jK, sK, F, fixeddofs,
                   freedofs, K, U>>

\* Lines 197-198.
Scatter ==
    /\ pc = "scatter"
    /\ U' = Scattered(freedofs)
    /\ pc' = "stress"
    /\ UNCHANGED <<nelx, nely, Edges, x, e, di, edofMat, iK, jK, sK, F, fixeddofs,
                   freedofs, K, result>>

\* Lines 200-218: the stresses are floating point values; the call returns
\* (maxsigma, area) with area = nelx*nely - len(e).
Stress ==
    /\ pc = "stress"
    /\ result' = Returned(NumElements - Len(e))
    /\ pc' = "returned"
    /\ UNCHANGED <<nelx, nely, Edges, x, e, di, edofMat, iK, jK, sK, F, fixeddofs,
                   freedofs, K, U>>

Next ==
    \/ Classify
    \/ BuildDofMap
    \/ DeleteVoid
    \/ BuildLoad
    \/ BuildFixed
    \/ BuildFree
    \/ Assemble
    \/ Solve
    \/ Scatter
    \/ Stress

Spec == Init /\ [][Next]_vars

(***************************************************************************)
(* _membershiptest alone, on rectangles and on larger grids: only the      *)
(* classification runs.                                                    *)
(***************************************************************************)
InitMember ==
    \E g \in MemberGrids : \E edges \in RectInputs : Start(g[1], g[2], edges)

NextMember == Classify

SpecMember == InitMember /\ [][NextMember]_vars

(***************************************************************************)
(* Vocabulary of the properties.                                           *)
(***************************************************************************)
Cells == (0..(nely - 1)) \X (0..(nelx - 1))

\* The 1-based, column-major index of the cell at (row, col).
CellIndex(row, col) == col * nely + row + 1

VoidCells == {c \in Cells : x[c[1]][c[2]] = 0}
SolidCells == {c \in Cells : x[c[1]][c[2]] = 1}

\* The x and y DOFs of the four corner nodes of the cell at (row, col).
CornerDofs(row, col) ==
    UNION {{2 * n - 1, 2 * n} :
              n \in {c * (nely + 1) + r + 1 : r \in {row, row + 1},
                                              c \in {col, col + 1}}}

SolidDofs == UNION {CornerDofs(c[1], c[2]) : c \in SolidCells}

Terminated == pc \in {"returned", "raised"}

\* How far the call got.
Classified == pc # "classify"
\* The deletion loop is over and nothing later writes edofMat, iK, jK or sK.
DeletionDone == pc = "fixed"
FixedComputed ==
    \/ pc \in {"free", "assemble", "solve", "scatter", "stress", "returned"}
    \/ pc = "raised" /\ result.line > 140
FreeComputed ==
    \/ pc \in {"assemble", "solve", "scatter", "stress", "returned"}
    \/ pc = "raised" /\ result.line > 140
KAssembled == K.shape # <<0, 0>>
ScatterDone == pc \in {"stress", "returned"}

(***************************************************************************)
(* C1.                                                                     *)
(***************************************************************************)
\* C1: a call with an empty edge list completes and returns, with every
\* cell solid, an empty VoidSet and area = nelx * nely.
C1_NoHoleReturnsFullArea ==
    (Edges = << >> /\ Terminated) =>
        /\ result.status = "returned"
        /\ result.area = nelx * nely
        /\ e = << >>
        /\ VoidCells = {}

(***************************************************************************)
(* C2.                                                                     *)
(***************************************************************************)
\* C2: when every cell is classified void, the call ends in an explicit
\* DegenerateGeometryError result, never in an unhandled exception.
C2_FullHoleIsDegenerateGeometryError ==
    (Terminated /\ Len(e) = nelx * nely) =>
        /\ result.status # "raised"
        /\ result.error = "DegenerateGeometryError"

(***************************************************************************)
(* C3.                                                                     *)
(***************************************************************************)
EdgeXs == UNION {{Edges[i][2], Edges[i][4]} : i \in 1..Len(Edges)}
EdgeYs == UNION {{Edges[i][3], Edges[i][5]} : i \in 1..Len(Edges)}

\* Edges is the boundary of an axis-aligned rectangle: four active sides,
\* each joined to the next, in either direction and from any starting side.
IsRectangle ==
    /\ Len(Edges) = 4
    /\ \A i \in 1..4 : Edges[i][1] = 1
    /\ Cardinality(EdgeXs) = 2 /\ Cardinality(EdgeYs) = 2
    /\ \A i \in 1..4 :
          /\ <<Edges[i][4], Edges[i][5]>>
                = <<Edges[(i % 4) + 1][2], Edges[(i % 4) + 1][3]>>
          /\ (Edges[i][2] = Edges[i][4]) # (Edges[i][3] = Edges[i][5])

\* The representative point of the cell (ely, elx) against the rectangle
\* scaled by 0.05*nelx and 0.1*nely (all in the model's scaled units).
StrictlyInside(ely, elx) ==
    /\ nelx * SetMin(EdgeXs) < XDen * (elx + 1)
    /\ XDen * (elx + 1) < nelx * SetMax(EdgeXs)
    /\ nely * SetMin(EdgeYs) < YDen * (nely - ely - 1)
    /\ YDen * (nely - ely - 1) < nely * SetMax(EdgeYs)

StrictlyOutside(ely, elx) ==
    \/ XDen * (elx + 1) < nelx * SetMin(EdgeXs)
    \/ nelx * SetMax(EdgeXs) < XDen * (elx + 1)
    \/ YDen * (nely - ely - 1) < nely * SetMin(EdgeYs)
    \/ nely * SetMax(EdgeYs) < YDen * (nely - ely - 1)

\* C3: for a rectangle hole, in every rotation and winding of its edge
\* list and for every grid size, a cell whose point is strictly inside the
\* scaled rectangle is void and one whose point is strictly outside is solid.
C3_RectangleInsideVoidOutsideSolid ==
    (Classified /\ IsRectangle) =>
        \A c \in Cells :
            /\ StrictlyInside(c[1], c[2]) => x[c[1]][c[2]] = 0
            /\ StrictlyOutside(c[1], c[2]) => x[c[1]][c[2]] = 1

\* The far end of the ray lies strictly outside the scaled rectangle.
RayEndOutside ==
    \/ RayEndX < nelx * SetMin(EdgeXs)
    \/ nelx * SetMax(EdgeXs) < RayEndX
    \/ RayEndY < nely * SetMin(EdgeYs)
    \/ nely * SetMax(EdgeYs) < RayEndY

\* What the test does achieve: the same statement for the rectangles that
\* leave the far end of the ray outside.
RectangleTestWithRayEndOutside ==
    (Classified /\ IsRectangle /\ RayEndOutside) =>
        \A c \in Cells :
            /\ StrictlyInside(c[1], c[2]) => x[c[1]][c[2]] = 0
            /\ StrictlyOutside(c[1], c[2]) => x[c[1]][c[2]] = 1

(***************************************************************************)
(* C4.                                                                     *)
(***************************************************************************)
\* The superposition sum for the DOF pair (p, q) over the retained rows.
Superposed(p, q) ==
    LET hits == {t \in (1..Len(edofMat)) \X (1..8) \X (1..8) :
                    edofMat[t[1]][t[2]] = p /\ edofMat[t[1]][t[3]] = q}
        val == [t \in hits |-> KE[t[2]][t[3]]]
    IN SumOver(hits, val)

\* What holds of every K the call assembles: inside K's shape every entry
\* is the superposition sum, and no pair outside it has a contribution.
SuperpositionWithinShape ==
    KAssembled =>
        \A p \in 1..NumDofs, q \in 1..NumDofs :
            IF p <= K.shape[1] /\ q <= K.shape[2]
            THEN K.val[p][q] = Superposed(p, q)
            ELSE Superposed(p, q) = 0

\* C4: K is the superposition of the element template; in particular a
\* call on the 1x1 grid with no hole assembles a K that, on the element's
\* 8 DOFs in DOF-map order, equals E0*KE.
C4_SingleElementStiffnessIsTemplate ==
    (nelx = 1 /\ nely = 1 /\ Edges = << >> /\ Terminated) =>
        /\ KAssembled
        /\ Len(edofMat) = 1
        /\ \A a \in 1..8, b \in 1..8 :
              K.val[edofMat[1][a]][edofMat[1][b]] = KE[a][b]

(***************************************************************************)
(* C5.                                                                     *)
(***************************************************************************)
\* The 1-based element indices of the solid cells, ascending.
SolidElements ==
    SetToSortedSeq({CellIndex(c[1], c[2]) : c \in SolidCells})

\* Filter-then-build: the rows, and the 64 triplets each, of the solid
\* elements only, out of the unfiltered table `full`.
RowsOfSolid(full) == [k \in 1..Len(SolidElements) |-> full[SolidElements[k]]]

TripletsOfSolid(full) ==
    [k \in 1..(64 * Len(SolidElements)) |->
        full[64 * (SolidElements[((k - 1) \div 64) + 1] - 1) + ((k - 1) % 64) + 1]]

\* C5: once the descending deletion loop is over, edofMat, iK, jK and sK are
\* what a filter-then-build pass over the solid cells produces.
C5_DeletionEqualsFilterThenBuild ==
    DeletionDone =>
        /\ edofMat = RowsOfSolid(EdofMatFull)
        /\ iK = TripletsOfSolid(iKFull(EdofMatFull))
        /\ jK = TripletsOfSolid(jKFull(EdofMatFull))
        /\ sK = TripletsOfSolid(sKFull(x))
        /\ Len(iK) = 64 * Cardinality(SolidCells)

C5_Witness ==
    /\ pc = "fixed"
    /\ Len(e) >= 2
    /\ Len(edofMat) >= 2
    /\ e[1] = 1
    /\ e[Len(e)] < nelx * nely

(***************************************************************************)
(* C6.                                                                     *)
(***************************************************************************)
\* C6: whenever K is assembled it is square with side 2*(nelx+1)*(nely+1),
\* whichever elements are void.
C6_StiffnessHasDofCountSide ==
    KAssembled => K.shape = <<NumDofs, NumDofs>>

(***************************************************************************)
(* C7.                                                                     *)
(***************************************************************************)
\* C7: freedofs is the set of DOFs of the solid elements minus fixeddofs,
\* and after the scatter U (of length 2*(nelx+1)*(nely+1)) is zero at every
\* fixed DOF and at every DOF no solid element refers to.
C7_FreeDofsAndScatterFrame ==
    /\ FreeComputed =>
          /\ Range(freedofs) = SolidDofs \ Range(fixeddofs)
          /\ Len(freedofs) = Cardinality(Range(freedofs))
    /\ ScatterDone =>
          /\ DOMAIN U = 1..NumDofs
          /\ \A d \in 1..NumDofs :
                (d \in Range(fixeddofs) \/ d \notin SolidDofs) => U[d] = 0
          /\ \A d \in 1..NumDofs : U[d] # 0 => d \in Range(freedofs)
          /\ \A i \in 1..Len(freedofs) : U[freedofs[i]] = i

C7_Witness ==
    /\ pc = "stress"
    /\ \E d \in SolidDofs : d \in Range(fixeddofs)
    /\ \E d \in 1..NumDofs : d \notin SolidDofs /\ d \notin Range(fixeddofs)
    /\ Len(freedofs) >= 1

(***************************************************************************)
(* C8.                                                                     *)
(***************************************************************************)
\* C8: the VoidSet e is ascending and duplicate-free, holds exactly the
\* indices col*nely + row + 1 of the cells marked void in x, and a call that
\* returns, returns area = nelx*nely - |e|, the number of solid cells.
C8_VoidSetAndArea ==
    Classified =>
        /\ \A k \in 1..(Len(e) - 1) : e[k] < e[k + 1]
        /\ Range(e) = {CellIndex(c[1], c[2]) : c \in VoidCells}
        /\ Range(e) \subseteq 1..(nelx * nely)
        /\ result.status = "returned" =>
              /\ result.area = nelx * nely - Len(e)
              /\ result.area = Cardinality(SolidCells)

\* The 4x4 scenario: the hole over the four interior elements, area 12.
C8_Witness ==
    /\ nelx = 4 /\ nely = 4
    /\ e = <<6, 7, 10, 11>>
    /\ AppendedVoids(x) # e
    /\ result.status = "returned"
    /\ result.area = 12

(***************************************************************************)
(* C9.                                                                     *)
(***************************************************************************)
\* The table as lines 107-109 leave it, before any row is deleted.
Unfiltered == pc = "delete" /\ di = Len(e)

\* C9: row col*nely + row of the unfiltered edofMat holds 8 distinct DOF
\* indices within 1..2*(nelx+1)*(nely+1): the x and y DOFs of the four
\* corner nodes of the cell (row, col).
C9_EdofRowsAreCornerDofs ==
    Unfiltered =>
        /\ Len(edofMat) = nelx * nely
        /\ \A c \in Cells :
              LET dofs == edofMat[CellIndex(c[1], c[2])]
              IN /\ Len(dofs) = 8
                 /\ Cardinality(Range(dofs)) = 8
                 /\ Range(dofs) \subseteq 1..NumDofs
                 /\ Range(dofs) = CornerDofs(c[1], c[2])

C9_Witness ==
    /\ Unfiltered
    /\ nelx >= 2 /\ nely >= 2
    /\ edofMat[CellIndex(nely - 1, nelx - 1)][4] = NumDofs

(***************************************************************************)
(* C10.                                                                    *)
(***************************************************************************)
\* C10: every index in fixeddofs is a DOF index within
\* 1..2*(nelx+1)*(nely+1), and fixeddofs and freedofs are disjoint.
C10_FixedDofsAreValidDofs ==
    /\ FixedComputed => \A k \in 1..Len(fixeddofs) : fixeddofs[k] \in 1..NumDofs
    /\ FreeComputed => Range(fixeddofs) \cap Range(freedofs) = {}

====
